---------------------------- MODULE Spec2Model ----------------------------
(***************************************************************************)
(* Slug-based navigation and the entry submission workflow of the map      *)
(* application: EntryForm (onFinish / createNewEntry / HandlerModal),      *)
(* ResultCard (onResultClick) and EntityRatings (redirectToNewRatingForm,  *)
(* redirectToRatingCommentForm).                                           *)
(*                                                                         *)
(* utils/slug, utils/objects, utils/utils, the redux slice and             *)
(* DuplicateListModal are used by these files but are not part of the      *)
(* sources at hand; they are modelled from the written specification.      *)
(***************************************************************************)
EXTENDS Integers, Sequences, FiniteSets, TLC

VARIABLES
  query,          \* router.query: partial function from parameter name to value
  lastRedirect,   \* the last router.replace: its argument and the query it was computed from
  mounted,        \* whether the EntryForm is on screen
  isEdit,         \* props.verb = SlugVerb.EDIT
  entryId,        \* props.entryId
  form,           \* the antd form's field values (what the user typed)
  formData,       \* useState formData: the payload cached by the last submit
  showModal,      \* useState showModal
  duplicate,      \* useState duplicate: the candidates the modal lists
  modalOwner,     \* the submission whose duplicate response set the modal's list (0: none)
  tasks,          \* the async invocations of onFinish and HandlerModal, in order of start,
                  \* each with the requests, prepends and redirects it has issued
  entries,        \* the redux search-result collection
  nextId,         \* the number of ids the server has assigned
  notifications,  \* the failure messages shown to the user
  declined,       \* the submissions whose duplicate confirmation the user declined
  codec,          \* SlugCodec under test: a descriptor, the slug made of it, its decoding
  ratings,        \* the ratings the server answered with (EntityRatings)
  rendered,       \* what EntityRatings renders of them
  geo             \* reverse geocoding: the requests in flight, the pin moves so far

vars == <<query, lastRedirect, mounted, isEdit, entryId, form, formData, showModal,
          duplicate, modalOwner, tasks, entries, nextId, notifications, declined,
          codec, ratings, rendered, geo>>

\* the variables of the codec, of the ratings view and of the geocoding effect
sideVars == <<codec, ratings, rendered, geo>>

workflowVars == <<mounted, isEdit, entryId, form, formData, showModal, duplicate,
                  modalOwner, tasks, entries, nextId, notifications, declined>>

NULL == "null"

-----------------------------------------------------------------------------
(* Bounds *)

MaxSlugLen == 8
MaxChain == 2
MaxSubmits == 2
MaxConfirms == 1
MaxRatings == 3
MaxPinMoves == 1

-----------------------------------------------------------------------------
(* Slug tokens *)

EntityTypes == {"entities", "events", "ratings", "comments"}
Verbs == {"create", "edit"}
EntityIds == {"a"}
RatingIds == {"r"}
Categories == {"initiative", "company", "event"}

\* mapSingularEntityNameToPlural / the category -> resource token table
PluralOf(category) ==
  CASE category = "initiative" -> "entities"
    [] category = "company" -> "entities"
    [] category = "event" -> "events"
    [] category = "rating" -> "ratings"
    [] category = "comment" -> "comments"

\* convertQueryParamToArray: string | string[] | undefined -> string[]
convertQueryParamToArray(param) ==
  CASE param.tag = "undef" -> <<>>
    [] param.tag = "str" -> <<param.v>>
    [] param.tag = "arr" -> param.v

SlugParam(q) == IF "slug" \in DOMAIN q THEN q["slug"] ELSE [tag |-> "undef"]

SlugOf(q) == convertQueryParamToArray(SlugParam(q))

RECURSIVE DecodeChain(_)
DecodeChain(b) ==
  IF Len(b) = 0 THEN <<>>
  ELSE IF b[1] \in EntityTypes
    THEN IF Len(b) >= 2 /\ b[2] \notin (EntityTypes \cup Verbs)
           THEN <<[entityType |-> b[1], id |-> b[2]]>> \o DecodeChain(SubSeq(b, 3, Len(b)))
           ELSE <<[entityType |-> b[1], id |-> NULL]>> \o DecodeChain(SubSeq(b, 2, Len(b)))
    ELSE <<[entityType |-> NULL, id |-> b[1]]>> \o DecodeChain(SubSeq(b, 2, Len(b)))

Decode_keepsVerb(segments) == [chain |-> DecodeChain(segments), verb |-> NULL]

\* SlugCodec.decode
Decode(segments) ==
  LET n == Len(segments)
      hasVerb == n > 0 /\ segments[n] \in Verbs
      body == IF hasVerb THEN SubSeq(segments, 1, n - 1) ELSE segments
  IN [chain |-> DecodeChain(body), verb |-> IF hasVerb THEN segments[n] ELSE NULL]

RECURSIVE EncodeChain(_)
EncodeChain(chain) ==
  IF Len(chain) = 0 THEN <<>>
  ELSE LET e == chain[1]
       IN (IF e.entityType = NULL THEN <<>> ELSE <<e.entityType>>)
          \o (IF e.id = NULL THEN <<>> ELSE <<e.id>>)
          \o EncodeChain(Tail(chain))

\* SlugCodec.encode
Encode(d) == EncodeChain(d.chain) \o (IF d.verb = NULL THEN <<>> ELSE <<d.verb>>)

RECURSIVE JoinSlug(_)
JoinSlug(s) ==
  IF Len(s) = 0 THEN ""
  ELSE IF Len(s) = 1 THEN s[1]
  ELSE s[1] \o "/" \o JoinSlug(Tail(s))

Without(q, keys) == [k \in (DOMAIN q) \ keys |-> q[k]]

\* createSlugPathFromQueryAndRemoveSlug: [joined slug, query without the slug]
createSlugPathFromQueryAndRemoveSlug(q) ==
  [path |-> JoinSlug(SlugOf(q)), query |-> Without(q, {"slug"})]

Min(a, b) == IF a < b THEN a ELSE b

\* EntityAddressResolver.resolve / redirectToEntityDetail: the router.replace argument
\* and the slug the new path carries
redirectToEntityDetail(q, id, category, truncateDepth, keysToStrip) ==
  LET d == Decode(SlugOf(q))
      kept == SubSeq(d.chain, 1, Min(truncateDepth, Len(d.chain)))
      chain == kept \o <<[entityType |-> PluralOf(category), id |-> id]>>
      slug == Encode([chain |-> chain, verb |-> NULL])
      draft == [k \in (DOMAIN q) \cup {"slug"} |-> IF k = "slug" THEN [tag |-> "arr", v |-> slug] ELSE q[k]]
      split == createSlugPathFromQueryAndRemoveSlug(draft)
  IN [pathname |-> "/maps/" \o split.path,
      query |-> Without(split.query, keysToStrip),
      slug |-> slug]

\* what the router's query is once router.replace(target) has been applied:
\* the catch-all route parses the path back into the slug array
Routed(target) ==
  [k \in (DOMAIN target.query) \cup {"slug"} |->
     IF k = "slug" THEN [tag |-> "arr", v |-> target.slug] ELSE target.query[k]]


-----------------------------------------------------------------------------
(* Navigation handlers *)

onResultClick_depth2(q, type, id) == redirectToEntityDetail(q, id, type, 2, {})

\* ResultCard.onResultClick
onResultClick(q, type, id) == redirectToEntityDetail(q, id, type, 0, {})

redirectToEntry_keepLng(q, id) ==
  redirectToEntityDetail(q, id, "initiative", 2, {"pinLat"})

\* EntryForm.redirectToEntry
redirectToEntry(q, id) == redirectToEntityDetail(q, id, "initiative", 2, {"pinLat", "pinLng"})

\* EntityRatings.redirectToNewRatingForm
redirectToNewRatingForm(q) ==
  LET slugArray == convertQueryParamToArray(SlugParam(q)) \o <<PluralOf("rating"), "create">>
      newQueryParams == [k \in (DOMAIN q) \cup {"slug"} |->
                           IF k = "slug" THEN [tag |-> "arr", v |-> slugArray] ELSE q[k]]
      split == createSlugPathFromQueryAndRemoveSlug(newQueryParams)
  IN [pathname |-> "/maps/" \o split.path, query |-> split.query, slug |-> slugArray]

\* EntityRatings.redirectToRatingCommentForm
redirectToRatingCommentForm(q, ratingId) ==
  LET slugArray == convertQueryParamToArray(SlugParam(q))
                     \o <<PluralOf("rating"), ratingId, PluralOf("comment"), "create">>
      newQueryParams == [k \in (DOMAIN q) \cup {"slug"} |->
                           IF k = "slug" THEN [tag |-> "arr", v |-> slugArray] ELSE q[k]]
      split == createSlugPathFromQueryAndRemoveSlug(newQueryParams)
  IN [pathname |-> "/maps/" \o split.path, query |-> split.query, slug |-> slugArray]

NoRedirect == [op |-> "none", from |-> <<>>, id |-> NULL, category |-> NULL,
               target |-> [pathname |-> "", query |-> <<>>, slug |-> <<>>]]

Replace(op, id, category, target) ==
  /\ lastRedirect' = [op |-> op, from |-> query, id |-> id, category |-> category,
                      target |-> target]
  /\ query' = Routed(target)

\* a click on a result card
ResultClick(id, type) ==
  /\ Replace("result", id, type, onResultClick(query, type, id))
  /\ mounted' = FALSE
  /\ UNCHANGED <<isEdit, entryId, form, formData, showModal, duplicate, modalOwner,
                 tasks, entries, nextId, notifications, declined>>

\* a click on "new rating"
NewRating ==
  /\ Len(SlugOf(query)) + 2 <= MaxSlugLen
  /\ Replace("rating", NULL, "rating", redirectToNewRatingForm(query))
  /\ UNCHANGED workflowVars

\* a click on "new comment" under a rating
NewComment(ratingId) ==
  /\ Len(SlugOf(query)) + 4 <= MaxSlugLen
  /\ Replace("comment", ratingId, "comment", redirectToRatingCommentForm(query, ratingId))
  /\ UNCHANGED workflowVars

\* the redirect that ends a submission, applied to the current query
EntryRedirect(id) ==
  /\ Replace("entry", id, "initiative", redirectToEntry(query, id))
  /\ UNCHANGED workflowVars

-----------------------------------------------------------------------------
(* Form payloads: v holds the fields that have a value, nulls the fields   *)
(* that are present with null or undefined.                                *)

AddressKeys == {"lat", "lng", "city"}
FormKeys == {"title", "version", "license", "tags", "custom_links"} \cup AddressKeys
Titles == {"t1", "t2"}
EditVersions == {0, 5}
CC0 == <<"CC0-1.0">>

EmptyEntry == [v |-> <<>>, nulls |-> {}]

\* utils/objects setValuesToDefaultOrNull (fillDefaults): a default replaces an absent
\* or null field and never a value
setValuesToDefaultOrNull(entry, defaults) ==
  [v |-> [k \in (DOMAIN entry.v) \cup (DOMAIN defaults) |->
            IF k \in DOMAIN entry.v THEN entry.v[k] ELSE defaults[k]],
   nulls |-> entry.nulls \ (DOMAIN defaults)]

FormRule_noBump(k, val) ==
  CASE k = "version" -> val
    [] k = "license" -> IF Len(val) = 0 THEN "" ELSE val[1]

\* the rules table of transformFormFields
FormRule(k, val) ==
  CASE k = "version" -> val + 1
    [] k = "license" -> IF Len(val) = 0 THEN "" ELSE val[1]

\* utils/objects transformObject (applyRules): rule(value) for every key of the entry
\* that has a rule in the table
transformObject(entry, ruleKeys) ==
  [v |-> [k \in DOMAIN entry.v |->
            IF k \in ruleKeys THEN FormRule(k, entry.v[k]) ELSE entry.v[k]],
   nulls |-> entry.nulls]

\* utils/objects renameProperties (renameFields)
renameProperties(entry, table) ==
  LET New(k) == IF k \in DOMAIN table THEN table[k] ELSE k
      Old(n) == CHOOSE k \in (DOMAIN entry.v) \cup entry.nulls : New(k) = n
  IN [v |-> [n \in {New(k) : k \in DOMAIN entry.v} |-> entry.v[Old(n)]],
      nulls |-> {New(k) : k \in entry.nulls}]

\* EntryForm.setFieldsToDefaultOrNull
setFieldsToDefaultOrNull(entry) ==
  setValuesToDefaultOrNull(entry, [tags |-> <<>>, custom_links |-> <<>>, version |-> 0])

\* EntryForm.transformFormFields
transformFormFields(entry) ==
  renameProperties(transformObject(entry, {"version", "license"}),
                   [custom_links |-> "links"])

\* dtos/SearchEntry convertNewEntryToSearchEntry
convertNewEntryToSearchEntry(id, entry) ==
  [id |-> id, title |-> entry.v["title"], tags |-> entry.v["tags"]]

RECURSIVE JoinStr(_)
JoinStr(a) == IF Len(a) = 0 THEN "" ELSE a[1] \o JoinStr(Tail(a))

\* the DuplicatePayload built by checkDuplicateEntries
DuplicateOf(entry) ==
  LET located == AddressKeys \cap DOMAIN entry.v
  IN [v |-> [k \in {"title", "license", "tags", "links", "version", "categories"}
                    \cup located |->
               CASE k = "title" -> entry.v["title"]
                 [] k = "license" -> JoinStr(entry.v["license"])
                 [] k \in {"tags", "links", "categories"} -> <<>>
                 [] k = "version" -> 1
                 [] OTHER -> entry.v[k]],
      nulls |-> {"id", "homepage", "image_url", "image_link_url", "opening_hours",
                 "contact"} \cup (AddressKeys \ located)]

\* the candidate lists the duplicate check may answer with
DupLists == {<<>>, <<[id |-> "d1"], [id |-> "d2"]>>}

\* the collection before the form session starts
InitEntries == <<[id |-> "a", title |-> "t0", tags |-> <<>>]>>

ServerId(n) == "n" \o ToString(n)

Request(kind, body, id) == [kind |-> kind, body |-> body, id |-> id]

NumSubmits == Cardinality({t \in DOMAIN tasks : tasks[t].origin = "submit"})
NumConfirms == Cardinality({t \in DOMAIN tasks : tasks[t].origin = "confirm"})

-----------------------------------------------------------------------------
(* The submission workflow of EntryForm *)

Task(origin, sub, entry, pc, reqs) ==
  [origin |-> origin, sub |-> sub, entry |-> entry, pc |-> pc, dup |-> <<>>, id |-> NULL,
   reqs |-> reqs, prepends |-> <<>>, redirects |-> <<>>]

createOrEditEntry_keepsPassedId(passedId, edit, assigned) == passedId

\* createOrEditEntry: the id the commit resolves to
createOrEditEntry(passedId, edit, assigned) == IF edit THEN passedId ELSE assigned

\* addEntryToState: entriesActions.prependEntry of the converted entry
addEntryToState(id, entry, collection) ==
  <<convertNewEntryToSearchEntry(id, entry)>> \o collection

\* addEntryToStateOnCreate
addEntryToStateOnCreate(edit, id, entry, collection) ==
  IF edit THEN collection ELSE addEntryToState(id, entry, collection)

\* createNewEntry up to its await: the transformed entry goes out as POST or PUT
CommitRequest(entry) ==
  LET adaptedEntry == transformFormFields(setFieldsToDefaultOrNull(entry))
  IN Request(IF isEdit THEN "put" ELSE "post", adaptedEntry,
             IF isEdit THEN entryId ELSE NULL)

Submit_concurrent ==
  /\ mounted
  /\ ~showModal
  /\ NumSubmits < MaxSubmits
  /\ {"title", "license"} \subseteq DOMAIN form.v
  /\ formData' = form
  /\ tasks' = Append(tasks, Task("submit", NumSubmits + 1, form, "checking",
                                 <<Request("dup", DuplicateOf(form), NULL),
                                   CommitRequest(form)>>))
  /\ UNCHANGED <<query, lastRedirect, mounted, isEdit, entryId, form, showModal,
                 duplicate, modalOwner, entries, nextId, notifications, declined>>

\* onFinish up to its await: cache the payload, send the duplicate check
\* (the form validates title and license; the open modal covers the form)
Submit ==
  /\ mounted
  /\ ~showModal
  /\ NumSubmits < MaxSubmits
  /\ {"title", "license"} \subseteq DOMAIN form.v
  /\ formData' = form
  /\ tasks' = Append(tasks, Task("submit", NumSubmits + 1, form, "checking",
                                 <<Request("dup", DuplicateOf(form), NULL)>>))
  /\ UNCHANGED <<query, lastRedirect, mounted, isEdit, entryId, form, showModal,
                 duplicate, modalOwner, entries, nextId, notifications, declined>>

DupRespond_missingElse(t, cands) ==
  /\ t \in DOMAIN tasks
  /\ tasks[t].pc = "checking"
  /\ tasks' = [tasks EXCEPT ![t].pc = "committing", ![t].dup = cands,
                            ![t].reqs = Append(@, CommitRequest(tasks[t].entry))]
  /\ IF Len(cands) > 0 /\ mounted
       THEN /\ showModal' = TRUE
            /\ duplicate' = cands
            /\ modalOwner' = tasks[t].sub
       ELSE UNCHANGED <<showModal, duplicate, modalOwner>>
  /\ UNCHANGED <<query, lastRedirect, mounted, isEdit, entryId, form, formData,
                 entries, nextId, notifications, declined>>

DupRespond_readsForm(t, cands) ==
  /\ t \in DOMAIN tasks
  /\ tasks[t].pc = "checking"
  /\ IF Len(cands) > 0
       THEN /\ tasks' = [tasks EXCEPT ![t].pc = "dupFound", ![t].dup = cands]
            /\ IF mounted
                 THEN /\ showModal' = TRUE
                      /\ duplicate' = cands
                      /\ modalOwner' = tasks[t].sub
                 ELSE UNCHANGED <<showModal, duplicate, modalOwner>>
       ELSE /\ tasks' = [tasks EXCEPT ![t].pc = "committing",
                                      ![t].reqs = Append(@, CommitRequest(form))]
            /\ UNCHANGED <<showModal, duplicate, modalOwner>>
  /\ UNCHANGED <<query, lastRedirect, mounted, isEdit, entryId, form, formData,
                 entries, nextId, notifications, declined>>

\* onFinish after checkDuplicateEntries resolved
DupRespond(t, cands) ==
  /\ t \in DOMAIN tasks
  /\ tasks[t].pc = "checking"
  /\ IF Len(cands) > 0
       THEN /\ tasks' = [tasks EXCEPT ![t].pc = "dupFound", ![t].dup = cands]
            /\ IF mounted
                 THEN /\ showModal' = TRUE
                      /\ duplicate' = cands
                      /\ modalOwner' = tasks[t].sub
                 ELSE UNCHANGED <<showModal, duplicate, modalOwner>>
       ELSE /\ tasks' = [tasks EXCEPT ![t].pc = "committing",
                                      ![t].reqs = Append(@, CommitRequest(tasks[t].entry))]
            /\ UNCHANGED <<showModal, duplicate, modalOwner>>
  /\ UNCHANGED <<query, lastRedirect, mounted, isEdit, entryId, form, formData,
                 entries, nextId, notifications, declined>>

\* checkDuplicateEntries rejected: onFinish ends with the rejection
DupFail(t) ==
  /\ t \in DOMAIN tasks
  /\ tasks[t].pc = "checking"
  /\ tasks' = [tasks EXCEPT ![t].pc = "failed"]
  /\ UNCHANGED <<query, lastRedirect, mounted, isEdit, entryId, form, formData, showModal,
                 duplicate, modalOwner, entries, nextId, notifications, declined>>

\* createNewEntry after createOrEditEntry resolved: prepend on create, then redirect
CommitRespond(t) ==
  /\ t \in DOMAIN tasks
  /\ tasks[t].pc = "committing"
  /\ LET adaptedEntry == transformFormFields(setFieldsToDefaultOrNull(tasks[t].entry))
         id == createOrEditEntry(entryId, isEdit, ServerId(nextId + 1))
         target == redirectToEntry(query, id)
         collection == addEntryToStateOnCreate(isEdit, id, adaptedEntry, entries)
     IN /\ nextId' = IF isEdit THEN nextId ELSE nextId + 1
        /\ entries' = collection
        /\ Replace("entry", id, "initiative", target)
        /\ tasks' = [tasks EXCEPT
                       ![t].pc = "done",
                       ![t].id = IF isEdit THEN NULL ELSE ServerId(nextId + 1),
                       ![t].prepends =
                          @ \o SubSeq(collection, 1, Len(collection) - Len(entries)),
                       ![t].redirects = Append(@, target.pathname)]
  /\ mounted' = FALSE
  /\ UNCHANGED <<isEdit, entryId, form, formData, showModal, duplicate, modalOwner,
                 notifications, declined>>

\* onCreate / onEdit rejected: createNewEntry ends with the rejection
CommitFail(t) ==
  /\ t \in DOMAIN tasks
  /\ tasks[t].pc = "committing"
  /\ tasks' = [tasks EXCEPT ![t].pc = "failed"]
  /\ UNCHANGED <<query, lastRedirect, mounted, isEdit, entryId, form, formData, showModal,
                 duplicate, modalOwner, entries, nextId, notifications, declined>>

HandlerModal_usesForm ==
  tasks' = Append(tasks, Task("confirm", modalOwner, form, "committing",
                              <<CommitRequest(form)>>))

\* HandlerModal: createNewEntry(formData, ...)
HandlerModal ==
  tasks' = Append(tasks, Task("confirm", modalOwner, formData, "committing",
                              <<CommitRequest(formData)>>))

\* DuplicateListModal, confirmed: HandlerModal runs and the modal closes
Confirm ==
  /\ mounted
  /\ showModal
  /\ NumConfirms < MaxConfirms
  /\ HandlerModal
  /\ showModal' = FALSE
  /\ UNCHANGED <<query, lastRedirect, mounted, isEdit, entryId, form, formData,
                 duplicate, modalOwner, entries, nextId, notifications, declined>>

\* DuplicateListModal, declined: setShowModal(false)
Decline ==
  /\ mounted
  /\ showModal
  /\ showModal' = FALSE
  /\ declined' = declined \cup {modalOwner}
  /\ UNCHANGED <<query, lastRedirect, mounted, isEdit, entryId, form, formData,
                 duplicate, modalOwner, tasks, entries, nextId, notifications>>

\* the user types into the title field
SetTitle(x) ==
  /\ mounted
  /\ ~showModal
  /\ form.v["title"] # x
  /\ form' = [form EXCEPT !.v["title"] = x]
  /\ UNCHANGED <<query, lastRedirect, mounted, isEdit, entryId, formData, showModal,
                 duplicate, modalOwner, tasks, entries, nextId, notifications, declined>>

-----------------------------------------------------------------------------
(* Initial states *)

MkQuery(slugParam, pins, org) ==
  LET keys == (IF slugParam.tag = "undef" THEN {} ELSE {"slug"})
                \cup pins \cup (IF org THEN {"org-tag"} ELSE {})
  IN [k \in keys |->
        CASE k = "slug" -> slugParam
          [] k = "pinLat" -> "1.5"
          [] k = "pinLng" -> "2.5"
          [] k = "org-tag" -> "org"]

Pins == {"pinLat", "pinLng"}

\* the form as first rendered: the hidden version field is set on edit only
InitialForms(edit) ==
  {[v |-> vs, nulls |-> FormKeys \ DOMAIN vs] :
     vs \in IF edit
              THEN {[title |-> "t1", license |-> CC0, version |-> n, tags |-> <<"x">>] :
                      n \in EditVersions}
              ELSE {[title |-> "t1", license |-> CC0]}}

FormSlug(edit) == IF edit THEN <<"entities", "a", "edit">> ELSE <<"entities", "create">>

NoCodec == [d |-> [chain |-> <<>>, verb |-> NULL], slug |-> <<>>, via |-> "none",
            decoded |-> FALSE, back |-> [chain |-> <<>>, verb |-> NULL]]

\* no reverse geocoding in flight, the pin not moved
NoGeocode == [pending |-> {}, moves |-> 0]

\* EntityRatings has returned null so far (no data yet)
NotRendered == [shown |-> FALSE, threw |-> FALSE, groups |-> <<>>]

\* nothing encoded, no ratings fetched; the geocoding effect is followed in GeoSpec
\* only, elsewhere no geocode request is in flight
PureInit ==
  /\ codec = NoCodec
  /\ ratings = <<>>
  /\ rendered = NotRendered
  /\ geo = NoGeocode

WorkflowInit ==
  /\ formData = EmptyEntry
  /\ showModal = FALSE
  /\ duplicate = <<>>
  /\ modalOwner = 0
  /\ tasks = <<>>
  /\ entries = InitEntries
  /\ nextId = 0
  /\ notifications = <<>>
  /\ declined = {}
  /\ lastRedirect = NoRedirect

Init ==
  /\ isEdit \in BOOLEAN
  /\ entryId = IF isEdit THEN "a" ELSE NULL
  /\ form \in InitialForms(isEdit)
  /\ query \in {MkQuery([tag |-> "arr", v |-> FormSlug(isEdit)], {}, FALSE),
                MkQuery([tag |-> "arr", v |-> FormSlug(isEdit)], Pins, TRUE)}
  /\ mounted = TRUE
  /\ WorkflowInit
  /\ PureInit

Next ==
  \/ Submit /\ UNCHANGED sideVars
  \/ \E t \in 1..(MaxSubmits + MaxConfirms) : \E cands \in DupLists :
       DupRespond(t, cands) /\ UNCHANGED sideVars
  \/ \E t \in 1..(MaxSubmits + MaxConfirms) : DupFail(t) /\ UNCHANGED sideVars
  \/ \E t \in 1..(MaxSubmits + MaxConfirms) : CommitRespond(t) /\ UNCHANGED sideVars
  \/ \E t \in 1..(MaxSubmits + MaxConfirms) : CommitFail(t) /\ UNCHANGED sideVars
  \/ Confirm /\ UNCHANGED sideVars
  \/ Decline /\ UNCHANGED sideVars
  \/ \E x \in Titles : SetTitle(x) /\ UNCHANGED sideVars
  \/ \E id \in EntityIds : mounted /\ ResultClick(id, "event") /\ UNCHANGED sideVars

Spec == Init /\ [][Next]_vars

-----------------------------------------------------------------------------
(* Navigation alone: any sequence of navigation actions from a well-formed slug *)

\* a verb is the last segment; an identifier follows its entity-type token
WellFormed(slug) ==
  \A i \in 1..Len(slug) :
    /\ slug[i] \in Verbs => i = Len(slug)
    /\ slug[i] \notin (EntityTypes \cup Verbs) => (i > 1 /\ slug[i - 1] \in EntityTypes)

BoundedSeq(S, n) == UNION {[1..k -> S] : k \in 0..n}

Descriptors ==
  [chain : BoundedSeq([entityType : EntityTypes, id : EntityIds \cup {NULL}], MaxChain),
   verb : Verbs \cup {NULL}]

\* router.query.slug as the framework hands it over: absent, one string, or an array
WellFormedSlugParams ==
  {[tag |-> "arr", v |-> Encode(d)] : d \in Descriptors}
    \cup {[tag |-> "str", v |-> t] : t \in EntityTypes}
    \cup {[tag |-> "undef"]}

NavInit ==
  /\ query \in {MkQuery(sp, pins, org) :
                  sp \in WellFormedSlugParams, pins \in SUBSET Pins, org \in BOOLEAN}
  /\ mounted = FALSE
  /\ isEdit = FALSE
  /\ entryId = NULL
  /\ form = [v |-> [title |-> "t1", license |-> CC0], nulls |-> FormKeys \ {"title", "license"}]
  /\ WorkflowInit
  /\ PureInit

NavNext ==
  \/ \E id \in EntityIds : \E type \in Categories : ResultClick(id, type) /\ UNCHANGED sideVars
  \/ NewRating /\ UNCHANGED sideVars
  \/ \E r \in RatingIds : NewComment(r) /\ UNCHANGED sideVars
  \/ \E id \in {ServerId(1)} \cup EntityIds : EntryRedirect(id) /\ UNCHANGED sideVars

NavSpec == NavInit /\ [][NavNext]_vars

-----------------------------------------------------------------------------
(* The slug codec alone: a descriptor is encoded, or a rating / comment     *)
(* form is pushed on an encoded slug by EntityRatings, and the slug is      *)
(* decoded again.                                                           *)

\* ids as they occur in slugs; "edit" is an id that collides with a verb token
CodecIds == {"a", "abc123", "edit"}

CodecDescriptors ==
  [chain : BoundedSeq([entityType : EntityTypes, id : CodecIds \cup {NULL}], MaxChain),
   verb : Verbs \cup {NULL}]

\* an entry names a resource type, and its id is not itself a resource or verb token
WellFormedEntry(e) ==
  /\ e.entityType \in EntityTypes
  /\ e.id \notin (EntityTypes \cup Verbs)

WellFormedDescriptor(d) ==
  /\ \A i \in 1..Len(d.chain) : WellFormedEntry(d.chain[i])
  /\ d.verb \in Verbs \cup {NULL}

SlugQuery(slug) == MkQuery([tag |-> "arr", v |-> slug], {}, FALSE)

IdleForm == [v |-> [title |-> "t1", license |-> CC0], nulls |-> FormKeys \ {"title", "license"}]

CodecInit ==
  /\ query = SlugQuery(<<>>)
  /\ mounted = FALSE
  /\ isEdit = FALSE
  /\ entryId = NULL
  /\ form = IdleForm
  /\ WorkflowInit
  /\ PureInit

\* encode(d)
CodecEncode(d) ==
  /\ codec.via = "none"
  /\ codec' = [codec EXCEPT !.d = d, !.slug = Encode(d), !.via = "encode"]

\* the new-rating form is opened on the encoded slug of a detail view
CodecNewRating ==
  /\ codec.via = "encode" /\ ~codec.decoded /\ codec.d.verb = NULL
  /\ codec' = [codec EXCEPT
        !.d = [chain |-> codec.d.chain \o <<[entityType |-> "ratings", id |-> NULL]>>,
               verb |-> "create"],
        !.slug = redirectToNewRatingForm(SlugQuery(codec.slug)).slug,
        !.via = "rating"]

\* the comment form of a rating is opened on the encoded slug of a detail view
CodecNewComment(ratingId) ==
  /\ codec.via = "encode" /\ ~codec.decoded /\ codec.d.verb = NULL
  /\ codec' = [codec EXCEPT
        !.d = [chain |-> codec.d.chain \o <<[entityType |-> "ratings", id |-> ratingId],
                                            [entityType |-> "comments", id |-> NULL]>>,
               verb |-> "create"],
        !.slug = redirectToRatingCommentForm(SlugQuery(codec.slug), ratingId).slug,
        !.via = "comment"]

\* decode(slug)
CodecDecode ==
  /\ codec.via # "none" /\ ~codec.decoded
  /\ codec' = [codec EXCEPT !.decoded = TRUE, !.back = Decode(codec.slug)]

codecFrame == <<query, lastRedirect, workflowVars, ratings, rendered, geo>>

CodecNext ==
  \/ \E d \in CodecDescriptors : CodecEncode(d) /\ UNCHANGED codecFrame
  \/ CodecNewRating /\ UNCHANGED codecFrame
  \/ \E r \in RatingIds : CodecNewComment(r) /\ UNCHANGED codecFrame
  \/ CodecDecode /\ UNCHANGED codecFrame

CodecSpec == CodecInit /\ [][CodecNext]_vars

-----------------------------------------------------------------------------
(* EntityRatings: the ratings of an entity grouped by context and threaded. *)
(* A context is the sequence of the UTF-16 code units of its name, which is *)
(* what Array.prototype.sort compares.                                      *)

Contexts == {<<1>>, <<1, 2>>, <<2>>}

\* the comments of one rating, oldest first; the empty list is what the
\* destructuring at the root comment cannot handle
CommentLists == {<<>>, <<"c2">>, <<"c3", "c1", "c2">>}

Injections(n) == {f \in [1..n -> 1..n] : \A i, j \in 1..n : f[i] = f[j] => i = j}

\* an answer of the ratings request
RatingList(n, ids, cs, cm) ==
  [i \in 1..n |-> [id |-> ids[i], context |-> cs[i], comments |-> cm[i]]]

\* a < b as the default comparator of Array.prototype.sort orders strings:
\* by code units, a proper prefix first
RECURSIVE LexLess(_, _)
LexLess(a, b) ==
  IF Len(b) = 0 THEN FALSE
  ELSE IF Len(a) = 0 THEN TRUE
  ELSE IF a[1] # b[1] THEN a[1] < b[1]
  ELSE LexLess(Tail(a), Tail(b))

\* the own keys of the grouped object, in insertion order
RECURSIVE FirstOccurrences(_)
FirstOccurrences(cs) ==
  IF Len(cs) = 0 THEN <<>>
  ELSE LET front == FirstOccurrences(SubSeq(cs, 1, Len(cs) - 1))
           last == cs[Len(cs)]
       IN IF \E i \in 1..Len(front) : front[i] = last THEN front ELSE Append(front, last)

\* lodash groupBy(ratings, 'context')
groupBy(rs) ==
  [keys |-> FirstOccurrences([i \in 1..Len(rs) |-> rs[i].context]),
   groups |-> [c \in {rs[i].context : i \in 1..Len(rs)} |->
                 SelectSeq(rs, LAMBDA r : r.context = c)]]

RECURSIVE SortKeys(_)
SortKeys(ks) ==
  IF Len(ks) = 0 THEN <<>>
  ELSE LET least == CHOOSE i \in 1..Len(ks) : \A j \in 1..Len(ks) : ~LexLess(ks[j], ks[i])
       IN <<ks[least]>> \o SortKeys(SubSeq(ks, 1, least - 1) \o SubSeq(ks, least + 1, Len(ks)))

sortedContexts_unsorted(groupedRatings) == groupedRatings.keys

\* Object.keys(groupedRatings).sort()
sortedContexts(groupedRatings) == SortKeys(groupedRatings.keys)

\* const [rootComment, ...replies] = contextRating.comments
Thread(contextRating) ==
  [id |-> contextRating.id,
   rootComment |-> contextRating.comments[1],
   replies |-> Tail(contextRating.comments)]

\* what the component returns for the ratings it was answered with
Render(rs) ==
  IF \E i \in 1..Len(rs) : Len(rs[i].comments) = 0
    THEN [shown |-> FALSE, threw |-> TRUE, groups |-> <<>>]
    ELSE LET groupedRatings == groupBy(rs)
             sorted == sortedContexts(groupedRatings)
         IN [shown |-> TRUE, threw |-> FALSE,
             groups |-> [i \in 1..Len(sorted) |->
                           LET contextRatings == groupedRatings.groups[sorted[i]]
                           IN [context |-> sorted[i],
                               threads |-> [j \in 1..Len(contextRatings) |->
                                              Thread(contextRatings[j])]]]]

\* the ratings request has answered with ratings of distinct ids, in any order
RatingsInit ==
  /\ query = SlugQuery(<<"entities", "a">>)
  /\ mounted = FALSE
  /\ isEdit = FALSE
  /\ entryId = NULL
  /\ form = IdleForm
  /\ WorkflowInit
  /\ codec = NoCodec
  /\ geo = NoGeocode
  /\ \E n \in 0..MaxRatings :
       \E ids \in Injections(n), cs \in [1..n -> Contexts], cm \in [1..n -> CommentLists] :
         ratings = RatingList(n, ids, cs, cm)
  /\ rendered = NotRendered

\* the render of EntityRatings once the ratings request has answered
RenderRatings ==
  /\ ~rendered.shown /\ ~rendered.threw
  /\ rendered' = Render(ratings)
  /\ UNCHANGED <<query, lastRedirect, workflowVars, codec, ratings, geo>>

RatingsNext == RenderRatings

RatingsSpec == RatingsInit /\ [][RatingsNext]_vars

-----------------------------------------------------------------------------
(* The submission workflow together with the reverse geocoding that the     *)
(* pin coordinates of the query trigger.                                    *)

PinPoints == {[pinLat |-> "1.5", pinLng |-> "2.5"], [pinLat |-> "3.5", pinLng |-> "4.5"]}

\* the coordinate a query parameter stands for, in tenths of a degree
ToNumber(str) ==
  CASE str = "1.5" -> 15
    [] str = "2.5" -> 25
    [] str = "3.5" -> 35
    [] str = "4.5" -> 45

\* new Point().fromQuery(query): empty unless both pin parameters are there
newPoint(q) ==
  IF Pins \subseteq DOMAIN q
    THEN [empty |-> FALSE, lat |-> ToNumber(q["pinLat"]), lng |-> ToNumber(q["pinLng"])]
    ELSE [empty |-> TRUE, lat |-> 0, lng |-> 0]

\* getCityFromAddress of the place the geocoder answers with
CityOf(point) == IF point.lat = 15 THEN "c1" ELSE "c2"

\* the effect on the pin coordinates as it runs at the first render
GeocodeAtMount(q) ==
  [pending |-> IF newPoint(q).empty THEN <<>> ELSE <<newPoint(q)>>, moves |-> 0]

Remove(seq, i) == SubSeq(seq, 1, i - 1) \o SubSeq(seq, i + 1, Len(seq))

\* the pin moves: the pin parameters of the query change, the effect runs again
\* and starts setAddressDetails for the new point
MovePin(p) ==
  /\ mounted
  /\ geo.moves < MaxPinMoves
  /\ LET moved == [k \in (DOMAIN query) \cup Pins |-> IF k \in Pins THEN p[k] ELSE query[k]]
     IN /\ newPoint(moved) # newPoint(query)
        /\ query' = moved
        /\ geo' = [pending |-> Append(geo.pending, newPoint(moved)), moves |-> geo.moves + 1]
  /\ UNCHANGED <<lastRedirect, workflowVars, codec, ratings, rendered>>

\* setAddressDetails after reverseGeocode resolved: the address goes into the form
GeoRespond(i) ==
  /\ i \in DOMAIN geo.pending
  /\ LET point == geo.pending[i]
     IN form' = [v |-> [k \in (DOMAIN form.v) \cup AddressKeys |->
                         CASE k = "lat" -> point.lat
                           [] k = "lng" -> point.lng
                           [] k = "city" -> CityOf(point)
                           [] OTHER -> form.v[k]],
                 nulls |-> form.nulls \ AddressKeys]
  /\ geo' = [geo EXCEPT !.pending = Remove(@, i)]
  /\ UNCHANGED <<query, lastRedirect, mounted, isEdit, entryId, formData, showModal,
                 duplicate, modalOwner, tasks, entries, nextId, notifications, declined,
                 codec, ratings, rendered>>

\* reverseGeocode rejected: setAddressDetails ends with the rejection
GeoFail(i) ==
  /\ i \in DOMAIN geo.pending
  /\ geo' = [geo EXCEPT !.pending = Remove(@, i)]
  /\ UNCHANGED <<query, lastRedirect, workflowVars, codec, ratings, rendered>>

\* the form as opened with a pin on the map: the first geocode request is in flight
GeoInit ==
  /\ isEdit \in BOOLEAN
  /\ entryId = IF isEdit THEN "a" ELSE NULL
  /\ form \in InitialForms(isEdit)
  /\ query = MkQuery([tag |-> "arr", v |-> FormSlug(isEdit)], Pins, TRUE)
  /\ mounted = TRUE
  /\ WorkflowInit
  /\ codec = NoCodec
  /\ ratings = <<>>
  /\ rendered = NotRendered
  /\ geo = GeocodeAtMount(query)

\* the submission up to the commit, with the pin moves and the geocoder's answers;
\* the failed requests, the decline and the title edits are in Spec and do not
\* touch the geocoding
GeoNext ==
  \/ Submit /\ UNCHANGED sideVars
  \/ \E t \in 1..(MaxSubmits + MaxConfirms) : \E cands \in DupLists :
       DupRespond(t, cands) /\ UNCHANGED sideVars
  \/ \E t \in 1..(MaxSubmits + MaxConfirms) : CommitRespond(t) /\ UNCHANGED sideVars
  \/ Confirm /\ UNCHANGED sideVars
  \/ \E p \in PinPoints : MovePin(p)
  \/ \E i \in 1..(MaxPinMoves + 1) : GeoRespond(i)
  \/ \E i \in 1..(MaxPinMoves + 1) : GeoFail(i)

GeoSpec == GeoInit /\ [][GeoNext]_vars

-----------------------------------------------------------------------------
(* Claims *)

TasksOf(sub) == {t \in DOMAIN tasks : tasks[t].sub = sub}

IsCommit(r) == r.kind \in {"post", "put"}
IsPost(r) == r.kind = "post"
IsPut(r) == r.kind = "put"

CommitReqs(t) == SelectSeq(tasks[t].reqs, IsCommit)

Adapted(entry) == transformFormFields(setFieldsToDefaultOrNull(entry))

\* C1: within one submission the create/edit request is issued only after the
\* duplicate-check request has returned; the two are never in flight together.
C1_CommitAfterDuplicateCheck ==
  \A t \in DOMAIN tasks :
    /\ tasks[t].origin = "submit" =>
         /\ tasks[t].reqs[1].kind = "dup"
         /\ \A i \in 2..Len(tasks[t].reqs) : IsCommit(tasks[t].reqs[i])
    /\ (tasks[t].origin = "submit" /\ tasks[t].pc = "checking") =>
         \A u \in TasksOf(tasks[t].sub) :
           CommitReqs(u) = <<>> /\ tasks[u].pc # "committing"

C1_Witness ==
  \E t \in DOMAIN tasks :
    /\ tasks[t].origin = "submit"
    /\ tasks[t].pc = "committing"
    /\ Len(tasks[t].reqs) = 2
    /\ \E u \in DOMAIN tasks : tasks[u].origin = "confirm" /\ tasks[u].pc = "committing"

\* C2: when the duplicate check answers with candidates, the confirmation list shows
\* exactly those candidates, and the submission issues no POST or PUT, prepends no
\* entry and redirects nowhere until the user confirms.
C2_DuplicatesAwaitConfirmation ==
  /\ showModal =>
       \E t \in DOMAIN tasks :
         /\ tasks[t].origin = "submit"
         /\ tasks[t].sub = modalOwner
         /\ Len(tasks[t].dup) > 0
         /\ duplicate = tasks[t].dup
  /\ \A t \in DOMAIN tasks :
       (tasks[t].origin = "submit" /\ Len(tasks[t].dup) > 0) =>
         /\ tasks[t].pc = "dupFound"
         /\ CommitReqs(t) = <<>>
         /\ tasks[t].prepends = <<>>
         /\ tasks[t].redirects = <<>>
         /\ (showModal /\ modalOwner = tasks[t].sub) =>
              \A u \in TasksOf(tasks[t].sub) : u = t

C2_Witness ==
  /\ showModal
  /\ Len(duplicate) = 2
  /\ ~isEdit
  /\ \A t \in DOMAIN tasks : CommitReqs(t) = <<>>
  /\ entries = InitEntries

\* C3: a create whose duplicate check came back empty issues exactly one POST and no
\* PUT, and on completion has put exactly one entry, the created one with the id the
\* server returned, at the front of the collection.
C3_CreatePostsAndPrependsOnce ==
  \A t \in DOMAIN tasks :
    (~isEdit /\ tasks[t].origin = "submit" /\ tasks[t].pc = "done") =>
      /\ tasks[t].dup = <<>>
      /\ CommitReqs(t) = <<Request("post", Adapted(tasks[t].entry), NULL)>>
      /\ tasks[t].id # NULL
      /\ tasks[t].prepends =
           <<convertNewEntryToSearchEntry(tasks[t].id, Adapted(tasks[t].entry))>>
      /\ \E i \in DOMAIN entries : entries[i] = tasks[t].prepends[1]

C3_Witness ==
  /\ ~isEdit
  /\ \E t \in DOMAIN tasks :
       /\ tasks[t].origin = "submit"
       /\ tasks[t].pc = "done"
       /\ entries[1] = tasks[t].prepends[1]
       /\ Len(entries) = Len(InitEntries) + 1

ResultId(t) == IF isEdit THEN entryId ELSE tasks[t].id

\* C4: every committed submission ends with exactly one redirect, to the detail view
\* /maps/entities/<id> of the resulting id.
C4_CommitRedirectsToDetail ==
  \A t \in DOMAIN tasks :
    tasks[t].pc = "done" => tasks[t].redirects = <<"/maps/entities/" \o ResultId(t)>>

\* C5: an edit of a form carrying version v sends version v + 1 in a PUT to
\* /entries/{entryId}, issues no POST and leaves the collection unchanged.
C5_EditPutsNextVersion ==
  isEdit =>
    /\ entries = InitEntries
    /\ \A t \in DOMAIN tasks :
         /\ tasks[t].prepends = <<>>
         /\ \A i \in DOMAIN tasks[t].reqs :
              LET r == tasks[t].reqs[i]
              IN /\ ~IsPost(r)
                 /\ IsPut(r) =>
                      /\ r.id = entryId
                      /\ r.body.v["version"] = tasks[t].entry.v["version"] + 1

C5_Witness ==
  /\ isEdit
  /\ \E t \in DOMAIN tasks :
       /\ tasks[t].pc = "done"
       /\ tasks[t].entry.v["version"] = 5
       /\ CommitReqs(t)[1].body.v["version"] = 6

\* C6: when the duplicate-check or the create/edit request fails, the workflow issues
\* no further request, prepends nothing, redirects nowhere, shows the failure to the
\* user and keeps the form payload and the cached payload as they were.
C6_FailureSurfacedInputKept ==
  [][\A t \in DOMAIN tasks :
       (tasks[t].pc \in {"checking", "committing"} /\ tasks'[t].pc = "failed") =>
         /\ tasks'[t].reqs = tasks[t].reqs
         /\ tasks'[t].prepends = <<>>
         /\ tasks'[t].redirects = <<>>
         /\ entries' = entries
         /\ query' = query
         /\ form' = form
         /\ formData' = formData
         /\ Len(notifications') > Len(notifications)]_vars

DeclineStep == showModal /\ ~showModal' /\ declined' # declined

\* C7: when the user declines the confirmation, the cached payload (and the form) stay
\* as they were and no create/edit request, prepend or redirect is ever issued for
\* that submission.
C7_DeclineKeepsPayload ==
  /\ [](\A s \in declined : \A t \in TasksOf(s) :
          /\ CommitReqs(t) = <<>>
          /\ tasks[t].prepends = <<>>
          /\ tasks[t].redirects = <<>>)
  /\ [][DeclineStep =>
          /\ formData' = formData
          /\ form' = form
          /\ tasks' = tasks
          /\ entries' = entries
          /\ query' = query]_vars

C7_Witness ==
  /\ declined # {}
  /\ \E t \in DOMAIN tasks : tasks[t].sub \notin declined /\ tasks[t].pc = "done"
  /\ formData # form

\* C8: after any sequence of navigation actions from a well-formed slug, the slug is
\* well-formed (a verb only as the last segment, an identifier only after its
\* entity-type token).
C8_SlugStaysWellFormed == WellFormed(SlugOf(query))

\* C9: the result-click redirect (truncateDepth 0, no keys to strip) yields a chain of
\* exactly one entry, {plural token of the category, id}, whatever chain the current
\* slug encoded.
C9_ResultClickSingleEntry ==
  lastRedirect.op = "result" =>
    /\ Decode(SlugOf(query)) =
         [chain |-> <<[entityType |-> PluralOf(lastRedirect.category),
                       id |-> lastRedirect.id]>>,
          verb |-> NULL]
    /\ lastRedirect.target.pathname =
         "/maps/" \o PluralOf(lastRedirect.category) \o "/" \o lastRedirect.id

C9_Witness ==
  /\ lastRedirect.op = "result"
  /\ Len(Decode(SlugOf(lastRedirect.from)).chain) >= 2
  /\ Decode(SlugOf(lastRedirect.from)).verb # NULL

\* C10: the query of a resolve redirect carries neither the slug nor a key to strip;
\* the redirect that ends a submission never carries pinLat or pinLng, and every other
\* parameter of the current URL passes through unchanged.
C10_RedirectQueryStripped ==
  lastRedirect.op \in {"result", "entry"} =>
    LET keys == IF lastRedirect.op = "entry" THEN {"pinLat", "pinLng"} ELSE {}
        tq == lastRedirect.target.query
        from == lastRedirect.from
    IN /\ "slug" \notin DOMAIN tq
       /\ (DOMAIN tq) \cap keys = {}
       /\ DOMAIN tq = (DOMAIN from) \ ({"slug"} \cup keys)
       /\ \A k \in DOMAIN tq : tq[k] = from[k]
       /\ DOMAIN query = (DOMAIN tq) \cup {"slug"}
       /\ \A k \in DOMAIN tq : query[k] = from[k]

C10_Witness ==
  /\ lastRedirect.op = "entry"
  /\ {"pinLat", "pinLng", "org-tag", "slug"} \subseteq DOMAIN lastRedirect.from
  /\ DOMAIN lastRedirect.target.query = {"org-tag"}

\* C11: a well-formed descriptor that is encoded and decoded again comes back
\* unchanged, the rating and comment forms that EntityRatings pushes on an encoded
\* slug decode to the chain extended by the pushed entries with the verb create,
\* and ["entities","abc123","ratings","create"] decodes to the chain
\* [{entities, abc123}, {ratings}] with the verb create.
C11_DecodeEncodeRoundTrip ==
  /\ (codec.decoded /\ WellFormedDescriptor(codec.d)) => codec.back = codec.d
  /\ codec.slug = <<"entities", "abc123", "ratings", "create">> /\ codec.decoded
       => codec.back = [chain |-> <<[entityType |-> "entities", id |-> "abc123"],
                                    [entityType |-> "ratings", id |-> NULL]>>,
                        verb |-> "create"]

C11_Witness ==
  /\ codec.decoded
  /\ codec.via = "rating"
  /\ codec.slug = <<"entities", "abc123", "ratings", "create">>
  /\ codec.back = codec.d

HasRootComments == \A i \in 1..Len(ratings) : Len(ratings[i].comments) >= 1

InputIndex(id) == CHOOSE i \in 1..Len(ratings) : ratings[i].id = id

RenderedContexts(r) == [i \in 1..Len(r.groups) |-> r.groups[i].context]

Permuted(rs, p) == [i \in 1..Len(rs) |-> rs[p[i]]]

\* C12: the rendered contexts are strictly increasing in lexicographic order (so each
\* appears once) and are exactly the contexts of the input; within a context the
\* ratings are those of the input with that context, in their input order; each
\* rating shows comments[0] as root and comments[1:] as replies in their order;
\* and every permutation of the input renders the same context order.
C12_GroupedSortedThreaded ==
  (rendered.shown /\ HasRootComments) =>
    LET g == rendered.groups
    IN /\ \A i, j \in 1..Len(g) : i < j => LexLess(g[i].context, g[j].context)
       /\ {g[i].context : i \in 1..Len(g)} = {ratings[i].context : i \in 1..Len(ratings)}
       /\ \A i \in 1..Len(g) :
            LET th == g[i].threads
            IN /\ {th[j].id : j \in 1..Len(th)}
                    = {ratings[k].id : k \in {k \in 1..Len(ratings) : ratings[k].context = g[i].context}}
               /\ \A j, k \in 1..Len(th) : j < k => InputIndex(th[j].id) < InputIndex(th[k].id)
               /\ \A j \in 1..Len(th) :
                    LET r == ratings[InputIndex(th[j].id)]
                    IN /\ th[j].rootComment = r.comments[1]
                       /\ th[j].replies = SubSeq(r.comments, 2, Len(r.comments))
       /\ \A p \in Injections(Len(ratings)) :
            RenderedContexts(Render(Permuted(ratings, p))) = RenderedContexts(rendered)

C12_Witness ==
  /\ rendered.shown
  /\ Len(ratings) = 3
  /\ Len(rendered.groups) = 2
  /\ groupBy(ratings).keys # RenderedContexts(rendered)
  /\ \E i \in 1..2 : /\ Len(rendered.groups[i].threads) = 2
                       /\ rendered.groups[i].threads[1].replies = <<"c1", "c2">>

\* the user has left the form by a click on a result card
NavigatedAway == ~mounted /\ lastRedirect.op = "result"

\* C13: once the user has navigated away from the form, a response of the duplicate
\* check or of the create/edit call that arrives afterwards is ignored: the step
\* issues no create/edit request, prepends nothing to the result collection, opens
\* no confirmation modal and redirects nowhere.
C13_StaleResponseIgnored ==
  [][NavigatedAway =>
       /\ \A t \in DOMAIN tasks : /\ tasks'[t].reqs = tasks[t].reqs
                                   /\ tasks'[t].prepends = tasks[t].prepends
                                   /\ tasks'[t].redirects = tasks[t].redirects
       /\ entries' = entries
       /\ showModal' = showModal
       /\ lastRedirect' = lastRedirect
       /\ query' = query]_vars

GeocodeInFlight == Len(geo.pending) > 0

\* a geocode request in flight blocks neither a submit nor the step from the
\* duplicate check's answer to the create/edit call
GeocodeBlocksNothing ==
  /\ (/\ GeocodeInFlight /\ mounted /\ ~showModal /\ NumSubmits < MaxSubmits
      /\ {"title", "license"} \subseteq DOMAIN form.v)
       => ENABLED (Submit /\ UNCHANGED sideVars)
  /\ \A t \in DOMAIN tasks :
       (GeocodeInFlight /\ tasks[t].pc = "checking")
         => ENABLED (DupRespond(t, <<>>) /\ UNCHANGED sideVars)

\* the requests of a submission carry the payload that submission was made with
SentAsSubmitted ==
  \A t \in DOMAIN tasks :
    tasks[t].origin = "submit" =>
      /\ tasks[t].reqs[1] = Request("dup", DuplicateOf(tasks[t].entry), NULL)
      /\ \A k \in 2..Len(tasks[t].reqs) :
           /\ IsCommit(tasks[t].reqs[k])
           /\ tasks[t].reqs[k].body = Adapted(tasks[t].entry)

\* the payload cached by setFormData is the one the latest submit was made with
CachedAsSubmitted ==
  \A t \in DOMAIN tasks :
    (tasks[t].origin = "submit" /\ tasks[t].sub = NumSubmits) => formData = tasks[t].entry

\* C14: the geocoding and the submission do not wait for each other. While a
\* geocode request is in flight a filled form can be submitted and an empty answer
\* of the duplicate check leads on to the create/edit call; the duplicate check of
\* a submission carries the payload the submit was made with and its create/edit
\* call the transform of that same payload, whatever the geocoder has written into
\* the form since.
C14_GeocodeIndependentOfSubmit ==
  /\ GeocodeBlocksNothing
  /\ SentAsSubmitted
  /\ CachedAsSubmitted

C14_Witness ==
  /\ geo.moves = 0
  /\ "city" \in DOMAIN form.v
  /\ \E t \in DOMAIN tasks :
       /\ tasks[t].origin = "submit"
       /\ tasks[t].pc \in {"committing", "done"}
       /\ "city" \notin DOMAIN tasks[t].entry.v
       /\ "city" \in tasks[t].reqs[1].body.nulls
       /\ "city" \notin DOMAIN tasks[t].reqs[2].body.v

\* the submit made last before task u was started
LastSubmitBefore(u) ==
  CHOOSE m \in 1..(u - 1) :
    /\ tasks[m].origin = "submit"
    /\ \A n \in (m + 1)..(u - 1) : tasks[n].origin # "submit"

\* fillDefaults, then applyRules, then renameFields
TransformOf(entry) ==
  renameProperties(
    transformObject(
      setValuesToDefaultOrNull(entry, [tags |-> <<>>, custom_links |-> <<>>, version |-> 0]),
      {"version", "license"}),
    [custom_links |-> "links"])

\* C15: the one request of a commit made on confirmation is the create/edit call
\* whose body is the transform (defaults, then rules, then renames) of the payload
\* of the most recent submit, and it equals the create/edit call that submit
\* sends when its own duplicate check finds nothing.
C15_ConfirmCommitsCachedPayload ==
  \A u \in DOMAIN tasks :
    tasks[u].origin = "confirm" =>
      LET m == LastSubmitBefore(u)
      IN /\ tasks[u].entry = tasks[m].entry
         /\ tasks[u].reqs = <<Request(IF isEdit THEN "put" ELSE "post",
                                       TransformOf(tasks[m].entry),
                                       IF isEdit THEN entryId ELSE NULL)>>
         /\ \A k \in 1..Len(tasks[m].reqs) :
              IsCommit(tasks[m].reqs[k]) => tasks[m].reqs[k] = tasks[u].reqs[1]

C15_Witness ==
  \E u \in DOMAIN tasks :
    /\ tasks[u].origin = "confirm"
    /\ tasks[u].pc = "done"
    /\ tasks[u].sub # tasks[LastSubmitBefore(u)].sub
    /\ Len(CommitReqs(LastSubmitBefore(u))) = 1
    /\ tasks[u].entry.v["title"] # tasks[tasks[u].sub].entry.v["title"]

=============================================================================
